---- MODULE Spec2Model ----
(***************************************************************************)
(* Shift-based (power-of-two) batch normalization for Lasagne:             *)
(* BatchNormSfhitPow2Layer (construction and get_output_for) and the       *)
(* wiring helper batch_norm_pow_2, from Train-time/shift_batch_norm.py.    *)
(*                                                                         *)
(* Numbers.  The program computes in floating point; the model computes    *)
(* the real-number values the expressions denote, exactly:                 *)
(*   - a rational is a pair <<n, d>> in lowest terms with d > 0;           *)
(*   - log2 of a positive rational is kept as its floor together with the  *)
(*     position of its fractional part relative to 1/2, which is all that  *)
(*     rounding reads;                                                     *)
(*   - 1/sqrt(r) is kept by its radicand r;                                *)
(*   - the running std and the outputs are numbers                         *)
(*       rat + SUM_m irr[m] * EpsScale / sqrt(m),  m > 1 squarefree,       *)
(*     in canonical form, so that equal values are equal records (the      *)
(*     fixed factor EpsScale keeps the coefficients small).  A value that  *)
(*     is not finite (Inf or NaN) has fin = FALSE.                         *)
(***************************************************************************)
EXTENDS Integers, Sequences, FiniteSets, TLC

VARIABLES
    layers,        \* the layer instances that exist
    nonlinearity,  \* self.nonlinearity of each layer
    mean,          \* self.mean: running mean, one entry per feature
    std,           \* self.std: running std, one entry per feature
    centered,      \* self.centered: registered, never read or written
    calls,         \* per layer: its evaluated forward calls, in order
    budget,        \* forward calls the run may still make
    ctor,          \* the latest construction attempt
    net            \* the layer handed to batch_norm_pow_2 and the result

vars == <<layers, nonlinearity, mean, std, centered, calls, budget, ctor, net>>

---------------------------------------------------------------------------
(* Integers and rationals *)

Abs(i) == IF i < 0 THEN -i ELSE i

RECURSIVE GCD(_, _)
GCD(a, b) == IF b = 0 THEN a ELSE GCD(b, a % b)

Rat(n, d) ==
    LET g == GCD(Abs(n), Abs(d))
        s == IF d < 0 THEN -1 ELSE 1
    IN  <<(s * n) \div g, (s * d) \div g>>

IntRat(i) == <<i, 1>>
Zero == IntRat(0)
One == IntRat(1)

\* sums and products reduce before they multiply, to stay small
RAdd(a, b) ==
    LET g == GCD(a[2], b[2])
    IN  Rat(a[1] * (b[2] \div g) + b[1] * (a[2] \div g), (a[2] \div g) * b[2])
RNeg(a) == <<-a[1], a[2]>>
RSub(a, b) == RAdd(a, RNeg(b))
RMul(a, b) ==
    LET g == GCD(Abs(a[1]), b[2])
        h == GCD(Abs(b[1]), a[2])
    IN  <<(a[1] \div g) * (b[1] \div h), (a[2] \div h) * (b[2] \div g)>>
RAbs(a) == <<Abs(a[1]), a[2]>>
RLt(a, b) == a[1] * b[2] < b[1] * a[2]
RLe(a, b) == a[1] * b[2] <= b[1] * a[2]

RECURSIVE RSum(_)
RSum(s) == IF s = <<>> THEN Zero ELSE RAdd(Head(s), RSum(Tail(s)))

\* 2^k as a rational, k any integer
Pow2(k) == IF k >= 0 THEN <<2 ^ k, 1>> ELSE <<1, 2 ^ (-k)>>

RECURSIVE IsPow2Int(_)
IsPow2Int(n) == n = 1 \/ (n > 1 /\ n % 2 = 0 /\ IsPow2Int(n \div 2))

\* q = 2^k for some integer k
IsPow2Rat(q) == (q[2] = 1 /\ IsPow2Int(q[1])) \/ (q[1] = 1 /\ IsPow2Int(q[2]))

\* floor(log2(q)) for a rational q > 0
RECURSIVE FloorLog2(_)
FloorLog2(q) ==
    IF q[1] >= 2 * q[2] THEN FloorLog2(Rat(q[1], 2 * q[2])) + 1
    ELSE IF q[1] < q[2] THEN FloorLog2(Rat(2 * q[1], q[2])) - 1
    ELSE 0

RECURSIVE ISqrtIn(_, _, _)
ISqrtIn(n, lo, hi) ==
    IF lo >= hi THEN lo
    ELSE LET mid == (lo + hi + 1) \div 2
         IN  IF mid * mid <= n THEN ISqrtIn(n, mid, hi) ELSE ISqrtIn(n, lo, mid - 1)

\* floor(sqrt(n)) for n >= 0
ISqrt(n) == ISqrtIn(n, 0, IF n < 46340 THEN n ELSE 46340)

\* the largest s with s*s dividing n, for n >= 1
SqPart(n) ==
    LET S == {s \in 1..ISqrt(n) : n % (s * s) = 0}
    IN  CHOOSE s \in S : \A t \in S : t <= s

---------------------------------------------------------------------------
(* Logarithms: T.log2, T.round, T.pow(2., .) *)

\* A base-2 logarithm: k says whether it is finite; a finite one is fl + f
\* with fl its floor and fr telling where f lies: "zero" (f = 0),
\* "low" (0 < f < 1/2), "half" (f = 1/2) or "high" (1/2 < f < 1).
FinLog(fl, fr) == [k |-> "fin", fl |-> fl, fr |-> fr]
NegInfLog == [k |-> "-inf", fl |-> 0, fr |-> "zero"]
PosInfLog == [k |-> "+inf", fl |-> 0, fr |-> "zero"]

\* T.log2(q) for a rational q >= 0; log2(0) is -inf
Log2(q) ==
    IF q = Zero THEN NegInfLog
    ELSE LET e == FloorLog2(q)
             m == RMul(q, Pow2(-e))
         IN  FinLog(e, IF m = One THEN "zero"
                       ELSE IF RLt(RMul(m, m), IntRat(2)) THEN "low" ELSE "high")

\* Round with T.floor in place of T.round
RoundDown(lg) == IF lg.k # "fin" THEN lg ELSE FinLog(lg.fl, "zero")

\* T.round (half away from zero) of a logarithm
Round(lg) ==
    IF lg.k # "fin" THEN lg
    ELSE FinLog(CASE lg.fr \in {"zero", "low"} -> lg.fl
                  [] lg.fr = "high" -> lg.fl + 1
                  [] lg.fr = "half" -> IF lg.fl >= 0 THEN lg.fl + 1 ELSE lg.fl,
                "zero")

\* T.pow(2., lg) for an integer-valued lg that is not +inf; 2^-inf = 0
Exp2(lg) == IF lg.k = "-inf" THEN Zero ELSE Pow2(lg.fl)

---------------------------------------------------------------------------
(* Reals rat + SUM_m irr[m] * EpsScale / sqrt(m) *)

\* defaults of __init__
alpha == Rat(1, 8)
epsilon == Rat(1, 100000)

\* 1/sqrt(epsilon) = EpsScale / sqrt(10): the unit of the irrational terms
EpsScale == SqPart(epsilon[2]) * (epsilon[2] \div (SqPart(epsilon[2]) * SqPart(epsilon[2])))

NoIrr == [m \in {} |-> Zero]
Surd(rat, irr) == [fin |-> TRUE, rat |-> rat, irr |-> irr]
RatSurd(q) == Surd(q, NoIrr)
\* Inf or NaN
NonFinite == [fin |-> FALSE, rat |-> Zero, irr |-> NoIrr]

Coef(s, m) == IF m \in DOMAIN s.irr THEN s.irr[m] ELSE Zero

SAdd(a, b) ==
    IF ~a.fin \/ ~b.fin THEN NonFinite
    ELSE LET D == {m \in DOMAIN a.irr \cup DOMAIN b.irr :
                      RAdd(Coef(a, m), Coef(b, m)) # Zero}
         IN  Surd(RAdd(a.rat, b.rat), [m \in D |-> RAdd(Coef(a, m), Coef(b, m))])

\* q * s for a rational q; 0 * Inf is NaN
SScale(q, s) ==
    IF ~s.fin THEN NonFinite
    ELSE IF q = Zero THEN RatSurd(Zero)
    ELSE Surd(RMul(q, s.rat), [m \in DOMAIN s.irr |-> RMul(q, s.irr[m])])

\* the sign of s, -1, 0 or 1, for an s whose terms do not differ in sign
Sign(s) ==
    LET cs == {s.rat} \cup {s.irr[m] : m \in DOMAIN s.irr}
    IN  CASE \A c \in cs : c = Zero -> 0
          [] (\A c \in cs : c[1] >= 0) /\ (\E c \in cs : c[1] > 0) -> 1
          [] (\A c \in cs : c[1] <= 0) /\ (\E c \in cs : c[1] < 0) -> -1

\* T.inv(T.sqrt(q)) for a rational q >= 0, kept by its radicand; 1/sqrt(0) = Inf
InvSqrt(q) == [fin |-> q # Zero, rad |-> q]

\* 1/sqrt(n/d) = (sd * md / sn) / sqrt(md * mn), where d = sd^2 * md and
\* n = sn^2 * mn with md, mn squarefree (and coprime, as n and d are)
FromInvSqrt(sr) ==
    IF ~sr.fin THEN NonFinite
    ELSE LET n == sr.rad[1]
             d == sr.rad[2]
             sn == SqPart(n)
             sd == SqPart(d)
             mn == n \div (sn * sn)
             md == d \div (sd * sd)
         IN  IF md * mn = 1 THEN RatSurd(Rat(sd, sn))
             ELSE Surd(Zero, [m \in {md * mn} |-> Rat(sd * md, sn * EpsScale)])

\* T.log2 of 1/sqrt(r), that is -log2(r)/2; log2(Inf) = +inf
Log2InvSqrt(sr) ==
    IF ~sr.fin THEN PosInfLog
    ELSE LET e == FloorLog2(sr.rad)
             j == e \div 2
             exact == IsPow2Rat(sr.rad)
         IN  IF e % 2 = 0
             THEN (IF exact THEN FinLog(-j, "zero") ELSE FinLog(-j - 1, "high"))
             ELSE FinLog(-j - 1, IF exact THEN "half" ELSE "low")

\* T.pow(2., lg) as a real; 2^+inf = Inf
Exp2S(lg) == IF lg.k = "+inf" THEN NonFinite ELSE RatSurd(Exp2(lg))

\* s = 2^k for some integer k
IsPow2(s) == s.fin /\ s.irr = NoIrr /\ IsPow2Rat(s.rat)

---------------------------------------------------------------------------
(* The layer's configuration and the inputs of the forward calls *)

\* an input size that is not specified (sizes that are, are positive)
None == 0

\* the forward calls are made on a layer built on a dense (batch, features)
\* input with axes omitted: axes = (0,), and mean, std and centered have
\* shape (1, features), held here as one entry per feature
InputShape == <<None, 3>>
Feat == 1..InputShape[2]

\* forward calls one run makes on a single layer
MaxCalls == 3
\* forward calls one run makes on a pair of layers
MaxPairCalls == 3

\* the batches fed to the layers: rows are samples, columns features
Batches ==
    { << <<1, 2, 3>>, <<1, 2, 3>>, <<1, 2, 3>>, <<5, 2, 3>> >>,
      << <<0, 0, 0>>, <<0, 0, 0>> >>,
      << <<2, 5, 1>>, <<2, 2, 0>>, <<2, 2, 0>> >>,
      << <<-1, 0, 6>>, <<1, 0, -1>>, <<0, 0, 1>> >> }

\* the batches fed to a pair of layers
PairBatches ==
    { << <<0, 0, 0>>, <<0, 0, 0>> >>,
      << <<-1, 0, 6>>, <<1, 0, -1>>, <<0, 0, 1>> >> }

Nonlinearities == {"identity", "rectify"}

\* lasagne.nonlinearities.identity and rectify, element-wise
Apply(f, s) ==
    IF f = "identity" THEN s
    ELSE IF ~s.fin THEN NonFinite
    ELSE IF Sign(s) > 0 THEN s ELSE RatSurd(Zero)

Samples(input) == 1..Len(input)

---------------------------------------------------------------------------
(* get_output_for, training branch: the batch statistics *)

\* input.mean(self.axes, keepdims=True)
BatchMean(input) ==
    [j \in Feat |->
        RMul(RSum([i \in Samples(input) |-> IntRat(input[i][j])]),
             Rat(1, Len(input)))]

\* centered = input - mean
Centered(input, m) ==
    [i \in Samples(input) |-> [j \in Feat |-> RSub(IntRat(input[i][j]), m[j])]]

\* T.switch(T.eq(centered, 0.), 0., T.log2(T.abs_(centered))), one element
CenteredLog2(c) == IF c = Zero THEN FinLog(0, "zero") ELSE Log2(RAbs(c))

\* T.pow(2., T.round(centered_log2)), one element
CenteredAp2(c) == Exp2(Round(CenteredLog2(c)))

\* T.mean(T.abs_(centered)*centered_ap2, self.axes, keepdims=True)
Surrogate(c) ==
    [j \in Feat |->
        RMul(RSum([i \in DOMAIN c |-> RMul(RAbs(c[i][j]), CenteredAp2(c[i][j]))]),
             Rat(1, Len(c)))]

\* StdRaw without the epsilon
StdRawNoEpsilon(v) == InvSqrt(v)

\* std = T.inv(T.sqrt(std+self.epsilon)), one element
StdRaw(v) == InvSqrt(RAdd(v, epsilon))

\* std = T.pow(2., T.round(T.log2(std))), one element
StdPow2(sr) == Exp2S(Round(Log2InvSqrt(sr)))

\* the values the training branch computes from the batch alone
Estimate(input) ==
    LET m == BatchMean(input)
        c == Centered(input, m)
        v == Surrogate(c)
        sr == [j \in Feat |-> StdRaw(v[j])]
    IN  [mean |-> m,
         centered |-> c,
         centered_ap2 |-> [i \in DOMAIN c |-> [j \in Feat |-> CenteredAp2(c[i][j])]],
         surrogate |-> v,
         std_raw |-> sr,
         std_raw_real |-> [j \in Feat |-> FromInvSqrt(sr[j])],
         std |-> [j \in Feat |-> StdPow2(sr[j])]]

Stats == [x \in Batches |-> Estimate(x)]

\* what an inference call has in place of the batch statistics
NoEstimate ==
    [mean |-> <<>>, centered |-> <<>>, centered_ap2 |-> <<>>,
     surrogate |-> <<>>, std_raw |-> <<>>, std_raw_real |-> <<>>, std |-> <<>>]

---------------------------------------------------------------------------
(* get_output_for *)

\* MeanUpdate applied twice in one call
MeanUpdateTwice(running_mean, m) ==
    LET once == RAdd(RMul(RSub(One, alpha), running_mean), RMul(alpha, m))
    IN  RAdd(RMul(RSub(One, alpha), once), RMul(alpha, m))

\* running_mean.default_update, one element
MeanUpdate(running_mean, m) ==
    RAdd(RMul(RSub(One, alpha), running_mean), RMul(alpha, m))

\* running_std.default_update, one element
StdUpdate(running_std, s) ==
    SAdd(SScale(RSub(One, alpha), running_std), SScale(alpha, s))

\* the std that line 94 hands to running_std.default_update: the name std
\* is bound there to the value of line 89, line 99 rebinds it afterwards
UpdateStd(e, j) == e.std_raw_real[j]

\* LocalMean with mean += running_mean
LocalMeanLeak(l, input, deterministic) ==
    IF deterministic THEN mean[l]
    ELSE [j \in Feat |-> RAdd(Stats[input].mean[j], mean[l][j])]

\* the local mean at line 103: the stored mean, or the batch mean
\* after mean += 0 * running_mean
LocalMean(l, input, deterministic) ==
    IF deterministic THEN mean[l]
    ELSE [j \in Feat |-> RAdd(Stats[input].mean[j], RMul(Zero, mean[l][j]))]

\* the local std at line 104: the stored std, or the power-of-two batch
\* std after std += 0 * running_std
LocalStd(l, input, deterministic) ==
    IF deterministic THEN std[l]
    ELSE [j \in Feat |-> SAdd(Stats[input].std[j], SScale(Zero, std[l][j]))]

\* self.nonlinearity((input - mean) * std)
Normalize(f, input, m, s) ==
    [i \in Samples(input) |->
        [j \in Feat |-> Apply(f, SScale(RSub(IntRat(input[i][j]), m[j]), s[j]))]]

\* NextMean with the update applied in inference mode too
NextMeanAlways(l, input, deterministic) ==
    [j \in Feat |-> MeanUpdate(mean[l][j], Stats[input].mean[j])]

\* the stored mean after the call: the default update is applied once when
\* the training graph is evaluated; the inference graph holds no update
NextMean(l, input, deterministic) ==
    IF deterministic THEN mean[l]
    ELSE [j \in Feat |-> MeanUpdate(mean[l][j], Stats[input].mean[j])]

\* the stored std after the call
NextStd(l, input, deterministic) ==
    IF deterministic THEN std[l]
    ELSE [j \in Feat |-> StdUpdate(std[l][j], UpdateStd(Stats[input], j))]

get_output_for(l, input, deterministic) ==
    /\ budget > 0
    /\ LET m == LocalMean(l, input, deterministic)
           s == LocalStd(l, input, deterministic)
           call == [deterministic |-> deterministic,
                    input |-> input,
                    mean |-> m,
                    std |-> s,
                    est |-> IF deterministic THEN NoEstimate ELSE Stats[input],
                    output |-> Normalize(nonlinearity[l], input, m, s),
                    mean0 |-> mean[l], std0 |-> std[l], centered0 |-> centered[l],
                    mean1 |-> NextMean(l, input, deterministic),
                    std1 |-> NextStd(l, input, deterministic)]
       IN  /\ mean' = [mean EXCEPT ![l] = call.mean1]
           /\ std' = [std EXCEPT ![l] = call.std1]
           /\ calls' = [calls EXCEPT ![l] = Append(@, call)]
    /\ budget' = budget - 1
    /\ UNCHANGED <<layers, nonlinearity, centered, ctor, net>>

\* no construction attempted; no layer handed to batch_norm_pow_2
NoCtor == [status |-> "none"]
NoNet == [status |-> "none"]

\* the state after construction: mean = 0, std = 1, centered = 0
InitLayers(ls, n) ==
    /\ layers = ls
    /\ nonlinearity \in [ls -> Nonlinearities]
    /\ mean = [l \in ls |-> [j \in Feat |-> Zero]]
    /\ std = [l \in ls |-> [j \in Feat |-> RatSurd(One)]]
    /\ centered = [l \in ls |-> [j \in Feat |-> Zero]]
    /\ calls = [l \in ls |-> <<>>]
    /\ budget = n
    /\ ctor = NoCtor
    /\ net = NoNet

Init == InitLayers({1}, MaxCalls)

Next ==
    \E l \in layers, input \in Batches, deterministic \in BOOLEAN :
        get_output_for(l, input, deterministic)

Spec == Init /\ [][Next]_vars

\* two layers built alike: same axes, epsilon, alpha and nonlinearity
InitPair ==
    /\ InitLayers({1, 2}, MaxPairCalls)
    /\ nonlinearity[1] = nonlinearity[2]

NextPair ==
    \E l \in layers, input \in PairBatches, deterministic \in BOOLEAN :
        get_output_for(l, input, deterministic)

SpecPair == InitPair /\ [][NextPair]_vars

---------------------------------------------------------------------------
(* __init__ *)

\* the largest rank of an input shape
MaxRank == 3

\* the sizes an axis of an input shape has
Sizes == {None, 4, 10}

Shapes == UNION {[1..r -> Sizes] : r \in 1..MaxRank}

\* the axes argument: omitted, an int, or a tuple of ints (held as the set
\* of its members: __init__ only iterates over it); axes count from 0
AxesArgs(input_shape) ==
    LET A == 0..(Len(input_shape) - 1)
    IN  {[kind |-> "None", val |-> {}]}
        \cup {[kind |-> "int", val |-> {a}] : a \in A}
        \cup {[kind |-> "tuple", val |-> S] : S \in SUBSET A \ {{}}}

\* DefaultAxes that keeps axis 0 instead of axis 1
DefaultAxesButFirst(input_shape) == 1..(Len(input_shape) - 1)

\* (0,) + tuple(range(2, len(self.input_shape)))
DefaultAxes(input_shape) == {0} \cup 2..(Len(input_shape) - 1)

\* self.axes
AxesOf(input_shape, axes_arg) ==
    IF axes_arg.kind = "None" THEN DefaultAxes(input_shape) ELSE axes_arg.val

\* shape = list(self.input_shape); shape[axis] = 1 for axis in self.axes
ParamShape(input_shape, axes) ==
    [a \in DOMAIN input_shape |-> IF (a - 1) \in axes THEN 1 ELSE input_shape[a]]

\* any(size is None for size in shape)
Unspecified(shape) == \E a \in DOMAIN shape : shape[a] = None

\* self.add_param(lasagne.init.Constant(c), shape, name, ...)
Param(shape, c) ==
    [shape |-> shape, init |-> c, trainable |-> FALSE, regularizable |-> FALSE]

\* BatchNormSfhitPow2Layer(incoming, axes, nonlinearity=f): the layer, or the
\* ValueError raised before any parameter is registered
Build(input_shape, axes_arg, f) ==
    LET axes == AxesOf(input_shape, axes_arg)
        shape == ParamShape(input_shape, axes)
        self == [input_shape |-> input_shape,
                 axes_arg |-> axes_arg,
                 axes |-> axes,
                 nonlinearity |-> IF f = "None" THEN "identity" ELSE f,
                 shape |-> shape]
    IN  IF Unspecified(shape)
        THEN [status |-> "ValueError", self |-> self,
              params |-> [n \in {} |-> Param(shape, 0)]]
        ELSE [status |-> "ok", self |-> self,
              params |-> [n \in {"centered", "mean", "std"} |->
                             Param(shape, IF n = "std" THEN 1 ELSE 0)]]

Construct(input_shape, axes_arg, f) ==
    /\ ctor = NoCtor
    /\ ctor' = Build(input_shape, axes_arg, f)
    /\ UNCHANGED <<layers, nonlinearity, mean, std, centered, calls, budget, net>>

InitCtor ==
    /\ InitLayers({}, 0)

NextCtor ==
    \E input_shape \in Shapes :
        \E axes_arg \in AxesArgs(input_shape), f \in Nonlinearities \cup {"None"} :
            Construct(input_shape, axes_arg, f)

SpecCtor == InitCtor /\ [][NextCtor]_vars

---------------------------------------------------------------------------
(* batch_norm_pow_2 *)

\* the layers handed to the helper.  has_nonlinearity and has_b say whether
\* the attribute exists; nonlinearity is "None" or a nonlinearity; b is
\* "None" (no bias) or the bias parameter "b", which is then a key of params
OutputShapes == {<<None, 10>>, <<4, 10>>, <<None, 4, 10, 10>>, <<None, None>>}

GivenLayers ==
    {L \in [has_nonlinearity : BOOLEAN,
            nonlinearity : Nonlinearities \cup {"tanh", "None"},
            has_b : BOOLEAN,
            b : {"None", "b"},
            params : {{"W"}, {"W", "b"}},
            output_shape : OutputShapes] :
        /\ L.has_nonlinearity \/ L.nonlinearity = "None"
        /\ L.has_b \/ L.b = "None"
        /\ "b" \in L.params <=> L.b = "b"}

\* GetNonlinearity that never finds the attribute
GetNonlinearityMissing(layer) == "None"

\* getattr(layer, 'nonlinearity', None)
GetNonlinearity(layer) ==
    IF layer.has_nonlinearity THEN layer.nonlinearity ELSE "None"

\* lines 121-122
StealNonlinearity(layer, f) ==
    IF f # "None"
    THEN [layer EXCEPT !.has_nonlinearity = TRUE, !.nonlinearity = "identity"]
    ELSE layer

\* del layer.params[layer.b] raises KeyError for a key params does not hold
DelRaises(layer) == layer.has_b /\ layer.b \notin layer.params

\* lines 123-125, when the del does not raise
RemoveBias(layer) ==
    IF layer.has_b
    THEN [layer EXCEPT !.params = @ \ {layer.b}, !.b = "None"]
    ELSE layer

\* no layer returned
NoBN == [status |-> "none", self |-> <<>>, params |-> <<>>]

\* calls of the helper one run makes on its layer
MaxWirings == 2

batch_norm_pow_2 ==
    /\ net.status # "none"
    /\ net.n < MaxWirings
    /\ LET f == GetNonlinearity(net.layer)
           stolen == StealNonlinearity(net.layer, f)
       IN  IF DelRaises(stolen)
           THEN net' = [status |-> "KeyError", n |-> net.n + 1,
                        given |-> net.layer, layer |-> stolen, bn |-> NoBN]
           ELSE LET bn == Build(stolen.output_shape,
                                [kind |-> "None", val |-> {}], f)
                IN  net' = [status |-> IF bn.status = "ok" THEN "returned"
                                       ELSE bn.status,
                            n |-> net.n + 1,
                            given |-> net.layer,
                            layer |-> RemoveBias(stolen),
                            bn |-> bn]
    /\ UNCHANGED <<layers, nonlinearity, mean, std, centered, calls, budget, ctor>>

InitWire ==
    /\ layers = {}
    /\ nonlinearity = <<>>
    /\ mean = <<>>
    /\ std = <<>>
    /\ centered = <<>>
    /\ calls = <<>>
    /\ budget = 0
    /\ ctor = NoCtor
    /\ \E L \in GivenLayers :
          net = [status |-> "given", n |-> 0, given |-> L, layer |-> L,
                 bn |-> NoBN]

NextWire == batch_norm_pow_2

SpecWire == InitWire /\ [][NextWire]_vars

---------------------------------------------------------------------------
(* What the claims read *)

TrainingCalls(l) == {k \in DOMAIN calls[l] : ~calls[l][k].deterministic}
InferenceCalls(l) == {k \in DOMAIN calls[l] : calls[l][k].deterministic}

\* nonlinearity((input - m) * s), written out
Scaled(f, input, m, s) ==
    [i \in 1..Len(input) |->
        [j \in 1..Len(input[i]) |->
            Apply(f, SScale(RSub(IntRat(input[i][j]), m[j]), s[j]))]]

\* feature j has one value throughout the batch
ConstantFeature(input, j) == \A i \in 1..Len(input) : input[i][j] = input[1][j]

\* the stored state of layer l is what its latest call left, and each call
\* started from what the call before it left
Chained(l) ==
    LET cs == calls[l]
    IN  /\ \A k \in DOMAIN cs :
              /\ cs[k].mean0 = (IF k = 1 THEN [j \in Feat |-> Zero] ELSE cs[k - 1].mean1)
              /\ cs[k].std0 = (IF k = 1 THEN [j \in Feat |-> RatSurd(One)]
                               ELSE cs[k - 1].std1)
        /\ mean[l] = (IF cs = <<>> THEN [j \in Feat |-> Zero] ELSE cs[Len(cs)].mean1)
        /\ std[l] = (IF cs = <<>> THEN [j \in Feat |-> RatSurd(One)] ELSE cs[Len(cs)].std1)

\* C1: an inference call leaves mean, std and centered as they were and
\* returns nonlinearity((input - stored mean) * stored std); two inference
\* calls on the same input with no training call between them return the
\* same output.
C1_InferenceReadsOnly ==
    \A l \in layers :
        /\ Chained(l)
        /\ \A k \in InferenceCalls(l) :
              LET c == calls[l][k]
              IN  /\ c.mean1 = c.mean0
                  /\ c.std1 = c.std0
                  /\ centered[l] = c.centered0
                  /\ c.output = Scaled(nonlinearity[l], c.input, c.mean0, c.std0)
                  /\ \A k2 \in InferenceCalls(l) :
                        (/\ k < k2
                         /\ calls[l][k2].input = c.input
                         /\ \A k3 \in k..k2 : k3 \in InferenceCalls(l))
                        => calls[l][k2].output = c.output

\* C1 witness: after a training call, two inference calls in a row on one
\* input, whose output has an entry that is not 0
C1_Witness ==
    \E l \in layers : \E k \in InferenceCalls(l) :
        /\ k > 2
        /\ (k - 1) \in InferenceCalls(l)
        /\ (k - 2) \in TrainingCalls(l)
        /\ calls[l][k - 1].input = calls[l][k].input
        /\ \E i \in DOMAIN calls[l][k].output, j \in Feat :
              calls[l][k].output[i][j] # RatSurd(Zero)

\* the output of a training call is computed from the batch statistics
FromBatch(l, c) == c.output = Scaled(nonlinearity[l], c.input, c.est.mean, c.est.std)

\* two training calls on the same input return the same output, whatever
\* the running statistics of the layers that make them
SameOnSameInput ==
    \A l1 \in layers, l2 \in layers :
        \A k1 \in TrainingCalls(l1), k2 \in TrainingCalls(l2) :
            (/\ nonlinearity[l1] = nonlinearity[l2]
             /\ calls[l1][k1].input = calls[l2][k2].input)
            => calls[l1][k1].output = calls[l2][k2].output

\* C2 as claimed: the output of a training call is computed from the batch
\* alone, is the same for two layers with different running statistics,
\* and equals the value computed from the running statistics, before or
\* after the update, only if these coincide with the batch statistics.
C2_Claimed ==
    /\ SameOnSameInput
    /\ \A l \in layers : \A k \in TrainingCalls(l) :
          LET c == calls[l][k]
          IN  /\ FromBatch(l, c)
              /\ c.output = Scaled(nonlinearity[l], c.input, c.mean0, c.std0)
                    => (c.mean0 = c.est.mean /\ c.std0 = c.est.std)
              /\ c.output = Scaled(nonlinearity[l], c.input, c.mean1, c.std1)
                    => (c.mean1 = c.est.mean /\ c.std1 = c.est.std)

\* the running statistics m, s coincide with the batch statistics of call c
\* as far as the output can tell: the means agree, and the stds agree on
\* every feature that is not constant over the batch
CoincideWhereSeen(c, m, s) ==
    \A j \in Feat :
        /\ m[j] = c.est.mean[j]
        /\ s[j] = c.est.std[j] \/ ConstantFeature(c.input, j)

\* C2, amended: the output of a training call is computed from the batch
\* alone and is the same for two layers with different running statistics;
\* under the identity nonlinearity it equals the value computed from the
\* running statistics, before or after the update, only if the running
\* mean is the batch mean and the running std is the batch std on every
\* feature that varies over the batch.
C2_OutputFromBatch ==
    /\ SameOnSameInput
    /\ \A l \in layers : \A k \in TrainingCalls(l) :
          LET c == calls[l][k]
          IN  /\ FromBatch(l, c)
              /\ (/\ nonlinearity[l] = "identity"
                  /\ c.output = Scaled("identity", c.input, c.mean0, c.std0))
                    => CoincideWhereSeen(c, c.mean0, c.std0)
              /\ (/\ nonlinearity[l] = "identity"
                  /\ c.output = Scaled("identity", c.input, c.mean1, c.std1))
                    => CoincideWhereSeen(c, c.mean1, c.std1)

\* C2 witness: two layers whose running statistics differ are trained on
\* the same batch and return the same output, which is neither the value
\* of the running statistics before the update nor of those after it
C2_Witness ==
    \E l1 \in layers, l2 \in layers :
        /\ l1 # l2
        /\ calls[l1] # <<>> /\ calls[l2] # <<>>
        /\ LET c1 == calls[l1][Len(calls[l1])]
               c2 == calls[l2][Len(calls[l2])]
           IN  /\ ~c1.deterministic /\ ~c2.deterministic
               /\ c1.input = c2.input
               /\ c1.mean0 # c2.mean0 /\ c1.std0 # c2.std0
               /\ c1.output = c2.output
               /\ c1.output # Scaled(nonlinearity[l1], c1.input, c1.mean0, c1.std0)
               /\ c1.output # Scaled(nonlinearity[l1], c1.input, c1.mean1, c1.std1)

\* the running mean after the calls cs, started from m: one EMA step per
\* training call, in call order, none for an inference call
RECURSIVE FoldMean(_, _)
FoldMean(cs, m) ==
    IF cs = <<>> THEN m
    ELSE FoldMean(Tail(cs),
                  IF Head(cs).deterministic THEN m
                  ELSE [j \in Feat |->
                           RAdd(RMul(Rat(7, 8), m[j]),
                                RMul(Rat(1, 8), BatchMean(Head(cs).input)[j]))])

\* C3: a training call leaves running_mean = 0.875*m0 + 0.125*mb, with m0
\* the value before the call and mb the batch mean; after any calls the
\* stored mean is that step applied once per training call, in call order,
\* inference calls changing nothing.
C3_MeanUpdatedOncePerCall ==
    \A l \in layers :
        /\ Chained(l)
        /\ \A k \in TrainingCalls(l) :
              LET c == calls[l][k]
              IN  \A j \in Feat :
                      c.mean1[j] = RAdd(RMul(Rat(7, 8), c.mean0[j]),
                                        RMul(Rat(1, 8), BatchMean(c.input)[j]))
        /\ \A k \in InferenceCalls(l) : calls[l][k].mean1 = calls[l][k].mean0
        /\ mean[l] = FoldMean(calls[l], [j \in Feat |-> Zero])

\* C3 witness: two training calls with different batch means and an
\* inference call between them
C3_Witness ==
    \E l \in layers :
        /\ Len(calls[l]) = 3
        /\ TrainingCalls(l) = {1, 3}
        /\ calls[l][1].est.mean # calls[l][3].est.mean
        /\ mean[l] # calls[l][1].mean1
        /\ mean[l] # calls[l][3].est.mean

\* C4 as claimed: a training call leaves running_std =
\* 0.875*running_std_old + 0.125*batch_std, with batch_std the power of two
\* that scales the output of the call.
C4_Claimed ==
    \A l \in layers : \A k \in TrainingCalls(l) :
        LET c == calls[l][k]
        IN  \A j \in Feat :
                c.std1[j] = SAdd(SScale(Rat(7, 8), c.std0[j]),
                                 SScale(Rat(1, 8), c.est.std[j]))

\* 1/sqrt(epsilon) = 1000/sqrt(10), one unit of the irrational term 10
InvSqrtEpsilon == Surd(Zero, [m \in {10} |-> Rat(1000, EpsScale)])

\* C6: where input - batch_mean is 0, centered_ap2 is 1 and the term of
\* the variance surrogate is 0; for a feature constant over the batch the
\* surrogate is 0, std_raw is 1/sqrt(epsilon), and the batch std, the
\* updated running std and the output are finite.
C6_ZeroCenteredIsHarmless ==
    \A l \in layers : \A k \in TrainingCalls(l) :
        LET c == calls[l][k]
        IN  \A j \in Feat :
                /\ \A i \in DOMAIN c.input :
                      c.est.centered[i][j] = Zero
                      => /\ c.est.centered_ap2[i][j] = One
                         /\ RMul(RAbs(c.est.centered[i][j]),
                                 c.est.centered_ap2[i][j]) = Zero
                /\ ConstantFeature(c.input, j)
                      => /\ c.est.surrogate[j] = Zero
                         /\ c.est.std_raw[j] = [fin |-> TRUE, rad |-> epsilon]
                         /\ c.est.std_raw_real[j] = InvSqrtEpsilon
                         /\ c.est.std[j].fin
                         /\ c.std1[j].fin
                         /\ \A i \in DOMAIN c.input : c.output[i][j].fin

\* C6 witness: a training call on a batch with a constant feature and, in
\* a feature that varies, a sample that equals the batch mean
C6_Witness ==
    \E l \in layers : \E k \in TrainingCalls(l) :
        LET c == calls[l][k]
        IN  /\ \E j \in Feat : ConstantFeature(c.input, j)
            /\ \E j \in Feat, i \in DOMAIN c.input :
                  /\ ~ConstantFeature(c.input, j)
                  /\ c.est.centered[i][j] = Zero

\* C9 as claimed: every element of the stored running std is a power of
\* two, after any calls.
C9_Claimed == \A l \in layers : \A j \in Feat : IsPow2(std[l][j])

\* C10: for every centered value c # 0, centered_ap2 is a power of two
\* with 2^-0.5 <= centered_ap2/|c| <= 2^0.5, that is
\* centered_ap2^2 <= 2*c^2 and c^2 <= 2*centered_ap2^2.
C10_Ap2WithinHalfStep ==
    \A l \in layers : \A k \in TrainingCalls(l) :
        LET e == calls[l][k].est
        IN  \A i \in DOMAIN e.centered : \A j \in Feat :
                LET c == e.centered[i][j]
                    a == e.centered_ap2[i][j]
                IN  c # Zero
                    => /\ IsPow2Rat(a)
                       /\ RLe(RMul(a, a), RMul(IntRat(2), RMul(c, c)))
                       /\ RLe(RMul(c, c), RMul(IntRat(2), RMul(a, a)))

\* C10 witness: a training call with a centered value that is not a power
\* of two and one whose power of two is below 1
C10_Witness ==
    \E l \in layers : \E k \in TrainingCalls(l) :
        LET e == calls[l][k].est
        IN  /\ \E i \in DOMAIN e.centered, j \in Feat :
                  /\ e.centered[i][j] # Zero
                  /\ RAbs(e.centered[i][j]) # e.centered_ap2[i][j]
            /\ \E i \in DOMAIN e.centered, j \in Feat :
                  /\ e.centered[i][j] # Zero
                  /\ RLt(e.centered_ap2[i][j], One)

\* the axes the claim speaks of: all but axis 1 when omitted, the one
\* axis of an int, the members of a tuple
ClaimedAxes(input_shape, axes_arg) ==
    IF axes_arg.kind = "None" THEN (0..(Len(input_shape) - 1)) \ {1}
    ELSE axes_arg.val

\* C5: construction raises ValueError if and only if an axis that is not
\* in axes has size None; (None, 10) with axes omitted succeeds and
\* (None, None) with axes=(0,) fails; a failed construction has registered
\* none of centered, mean and std.
C5_ConstructionFailsOnUnknownSize ==
    ctor.status # "none" =>
        LET sh == ctor.self.input_shape
            arg == ctor.self.axes_arg
            ax == ClaimedAxes(sh, arg)
        IN  /\ ctor.status \in {"ok", "ValueError"}
            /\ ctor.status = "ValueError"
                  <=> \E a \in 0..(Len(sh) - 1) : a \notin ax /\ sh[a + 1] = None
            /\ ctor.status = "ValueError" => DOMAIN ctor.params = {}
            /\ ctor.status = "ok" => DOMAIN ctor.params = {"centered", "mean", "std"}
            /\ (sh = <<None, 10>> /\ arg.kind = "None") => ctor.status = "ok"
            /\ (sh = <<None, None>> /\ arg.kind = "tuple" /\ arg.val = {0})
                  => ctor.status = "ValueError"

\* C5 witness: (None, None) with axes=(0,) has failed with nothing registered
C5_Witness ==
    /\ ctor.status = "ValueError"
    /\ ctor.self.input_shape = <<None, None>>
    /\ ctor.self.axes_arg = [kind |-> "tuple", val |-> {0}]
    /\ DOMAIN ctor.params = {}

\* what a layer computes, as the steps it applies to its input: the
\* pre-activation, the bias if it has one, its nonlinearity unless that is
\* absent or the identity
Steps(layer) ==
    <<"pre_activation">>
    \o (IF layer.b = "b" THEN <<"add_b">> ELSE <<>>)
    \o (IF layer.nonlinearity \in {"None", "identity"} THEN <<>>
        ELSE <<layer.nonlinearity>>)

\* what the returned layer computes, stacked on the given one
Composite(layer, bn) ==
    Steps(layer)
    \o <<"normalize">>
    \o (IF bn.self.nonlinearity = "identity" THEN <<>> ELSE <<bn.self.nonlinearity>>)

\* C7: for a layer with a nonlinearity f the helper sets the layer's
\* nonlinearity to identity and returns a normalization layer stacked on it
\* whose nonlinearity is f; it removes a bias parameter from the layer's
\* parameters; with both, the composite computes f(normalize(pre_activation));
\* for a layer without a nonlinearity the returned layer uses identity.
C7_HelperMovesNonlinearity ==
    net.status = "returned" =>
        LET g == net.given
            f == g.nonlinearity
        IN  /\ net.bn.status = "ok"
            /\ net.bn.self.input_shape = net.layer.output_shape
            /\ (g.has_nonlinearity /\ f # "None")
                  => /\ net.layer.nonlinearity = "identity"
                     /\ net.bn.self.nonlinearity = f
            /\ (~g.has_nonlinearity \/ f = "None")
                  => /\ net.bn.self.nonlinearity = "identity"
                     /\ net.layer.nonlinearity = f
            /\ g.b = "b" => ("b" \notin net.layer.params /\ net.layer.b = "None")
            /\ (g.has_nonlinearity /\ f # "None" /\ g.b = "b")
                  => Composite(net.layer, net.bn)
                       = <<"pre_activation", "normalize">>
                         \o (IF f = "identity" THEN <<>> ELSE <<f>>)

\* C7 witness: a layer with rectify and a bias has been wired
C7_Witness ==
    /\ net.status = "returned"
    /\ net.given.nonlinearity = "rectify"
    /\ net.given.b = "b"
    /\ net.given.params = {"W", "b"}
    /\ net.layer.params = {"W"}
    /\ Steps(net.given) = <<"pre_activation", "add_b", "rectify">>
    /\ Composite(net.layer, net.bn) = <<"pre_activation", "normalize", "rectify">>

\* C8 as claimed: on a layer whose sizes are specified on the axes that are
\* not reduced, the helper returns a normalization layer and raises
\* nothing, whatever nonlinearity and b attributes the layer has.
C8_Claimed ==
    (/\ net.status # "given"
     /\ ~Unspecified(ParamShape(net.given.output_shape,
                                DefaultAxes(net.given.output_shape))))
    => net.status = "returned"

====
